---- MODULE Spec2Model ----
(***************************************************************************)
(* SwasthBot (src/dataaas/swasthbot_with_herbs.py): one run of the script. *)
(* The run loads the disease table, builds the symptom index, answers the  *)
(* name search, takes the selected symptoms, scores the rows one by one    *)
(* and reports.  Strings are sequences of one-character strings, so that   *)
(* strip(), lower(), split(",") and sorted() are computed, not assumed.    *)
(***************************************************************************)
EXTENDS Integers, Sequences, FiniteSets, TLC

VARIABLES
    pc,              \* where the run is: load, index, search, select, scoring, report, done, halted
    halt,            \* why the run ended early: "", "st.stop", "AttributeError", "re.error"
    table,           \* the spreadsheet as read_excel returns it: headers and rows of cells
    px,              \* TRUE when plotly.express was imported, FALSE when px = None
    df,              \* the loaded frame: one record per row (name, symptoms, red_flags)
    symptom_map,     \* token -> sequence of names
    all_symptoms,    \* sorted list of the tokens
    query,           \* the stripped, lower-cased text of the search box
    matches,         \* row numbers of df selected by str.contains, in row order
    found,           \* pending, skipped, displayed, notfound, error
    row,             \* the row number displayed (matches.iloc[0]); 0 when none
    symptom_input,   \* the selected symptoms
    i,               \* the row the scoring loop handles next
    disease_scores,  \* dict name -> score, as a sequence of entries in insertion order
    risk_levels,     \* dict name -> tier, as a function
    sorted_diseases, \* the ranked entries
    report           \* pending, none, ranked, noresult

vars == <<pc, halt, table, px, df, symptom_map, all_symptoms, query, matches, found,
          row, symptom_input, i, disease_scores, risk_levels, sorted_diseases, report>>

----------------------------------------------------------------------------
(* Bounds of the model. *)

MaxRows == 3

MaxQueryLen == 3

----------------------------------------------------------------------------
(* Strings. *)

\* str.lower() on one character
Lower(c) ==
    CASE c = "A" -> "a"
      [] c = "B" -> "b"
      [] c = "C" -> "c"
      [] c = "D" -> "d"
      [] c = "E" -> "e"
      [] c = "F" -> "f"
      [] c = "G" -> "g"
      [] c = "L" -> "l"
      [] c = "M" -> "m"
      [] c = "N" -> "n"
      [] c = "R" -> "r"
      [] c = "S" -> "s"
      [] c = "U" -> "u"
      [] OTHER -> c

\* the code point of a character (the order sorted() compares strings by)
Ord(c) ==
    CASE c = " " -> 32
      [] c = "(" -> 40
      [] c = ")" -> 41
      [] c = "," -> 44
      [] c = "." -> 46
      [] c = "A" -> 65
      [] c = "B" -> 66
      [] c = "C" -> 67
      [] c = "D" -> 68
      [] c = "E" -> 69
      [] c = "F" -> 70
      [] c = "G" -> 71
      [] c = "L" -> 76
      [] c = "M" -> 77
      [] c = "N" -> 78
      [] c = "R" -> 82
      [] c = "S" -> 83
      [] c = "U" -> 85
      [] c = "_" -> 95
      [] c = "a" -> 97
      [] c = "b" -> 98
      [] c = "c" -> 99
      [] c = "d" -> 100
      [] c = "e" -> 101
      [] c = "f" -> 102
      [] c = "g" -> 103
      [] c = "i" -> 105
      [] c = "l" -> 108
      [] c = "m" -> 109
      [] c = "n" -> 110
      [] c = "o" -> 111
      [] c = "p" -> 112
      [] c = "r" -> 114
      [] c = "s" -> 115
      [] c = "t" -> 116
      [] c = "u" -> 117
      [] c = "y" -> 121

\* s.lower()
LowerStr(s) == [k \in DOMAIN s |-> Lower(s[k])]

RECURSIVE LStrip(_)
LStrip(s) == IF s # <<>> /\ Head(s) = " " THEN LStrip(Tail(s)) ELSE s

RECURSIVE RStrip(_)
RStrip(s) ==
    IF s # <<>> /\ s[Len(s)] = " " THEN RStrip(SubSeq(s, 1, Len(s) - 1)) ELSE s

\* s.strip()
Strip(s) == RStrip(LStrip(s))

\* s.split(","): the pieces between the commas; "" gives one empty piece
RECURSIVE SplitFrom(_, _, _)
SplitFrom(s, k, piece) ==
    IF k > Len(s) THEN <<piece>>
    ELSE IF s[k] = "," THEN <<piece>> \o SplitFrom(s, k + 1, <<>>)
    ELSE SplitFrom(s, k + 1, Append(piece, s[k]))

Split(s) == SplitFrom(s, 1, <<>>)

\* s < t as Python compares strings
RECURSIVE StrLess(_, _)
StrLess(s, t) ==
    IF t = <<>> THEN FALSE
    ELSE IF s = <<>> THEN TRUE
    ELSE IF Head(s) = Head(t) THEN StrLess(Tail(s), Tail(t))
    ELSE Ord(Head(s)) < Ord(Head(t))

\* sorted(S) of a set of strings
RECURSIVE Sorted(_)
Sorted(S) ==
    IF S = {} THEN <<>>
    ELSE LET m == CHOOSE x \in S : \A y \in S : x = y \/ StrLess(x, y)
         IN  <<m>> \o Sorted(S \ {m})

Range(s) == {s[k] : k \in DOMAIN s}

----------------------------------------------------------------------------
(* Cells.  read_excel gives NaN for a blank cell and the text otherwise.   *)

Text(s) == [blank |-> FALSE, text |-> s]

NaN == [blank |-> TRUE, text |-> <<>>]

\* str(cell): str(float('nan')) is "nan"
Str(cell) == IF cell.blank THEN <<"n", "a", "n">> ELSE cell.text

----------------------------------------------------------------------------
(* load_disease_data *)

\* line 23: c.strip().lower() for every header
Columns(headers) == [j \in DOMAIN headers |-> LowerStr(Strip(headers[j]))]

NAME == <<"n", "a", "m", "e">>

SYMPTOMS == <<"s", "y", "m", "p", "t", "o", "m", "s">>

RED_FLAGS == <<"r", "e", "d", "_", "f", "l", "a", "g", "s">>

Places(cols, col) == {j \in DOMAIN cols : cols[j] = col}

\* the cell of column col in a raw row; a column added at line 32 holds ""
CellOf(cols, cells, col) ==
    IF Places(cols, col) = {} THEN Text(<<>>)
    ELSE cells[CHOOSE j \in Places(cols, col) : \A k \in Places(cols, col) : j <= k]

\* lines 27-34: the frame's rows; the name is str(cell).lower()
Frame(cols, rows) ==
    [r \in DOMAIN rows |->
        [name      |-> LowerStr(Str(CellOf(cols, rows[r], NAME))),
         symptoms  |-> CellOf(cols, rows[r], SYMPTOMS),
         red_flags |-> CellOf(cols, rows[r], RED_FLAGS)]]

Load ==
    /\ pc = "load"
    /\ LET cols == Columns(table.headers) IN
         IF Places(cols, NAME) = {}
         THEN \* lines 24-26: st.error, st.stop
              /\ pc' = "halted"
              /\ halt' = "st.stop"
              /\ df' = df
         ELSE IF Cardinality(Places(cols, NAME)) > 1
         THEN \* line 27: df['name'] is a DataFrame when the label is repeated,
              \* and a DataFrame has no .str: AttributeError ends the run
              /\ pc' = "halted"
              /\ halt' = "AttributeError"
              /\ df' = df
         ELSE /\ pc' = "index"
              /\ halt' = halt
              /\ df' = Frame(cols, table.rows)
    /\ UNCHANGED <<table, px, symptom_map, all_symptoms, query, matches, found, row,
                   symptom_input, i, disease_scores, risk_levels, sorted_diseases, report>>

----------------------------------------------------------------------------
(* The symptom map. *)

NonEmptyPieces(pieces) == SelectSeq(pieces, LAMBDA x : Strip(x) # <<>>)

\* line 44: [x.strip().lower() for x in raw.split(",") if x.strip()]
IndexTokens(raw) ==
    LET kept == NonEmptyPieces(Split(raw))
    IN  [k \in DOMAIN kept |-> LowerStr(Strip(kept[k]))]

\* a map that lists a name once per token, however often the row repeats the token
MapAppendOnce(m, s, name) ==
    IF s \in DOMAIN m
    THEN (IF m[s] # <<>> /\ m[s][Len(m[s])] = name THEN m ELSE [m EXCEPT ![s] = Append(@, name)])
    ELSE (s :> <<name>>) @@ m

\* line 45: symptom_map[s].append(name)
MapAppend(m, s, name) ==
    IF s \in DOMAIN m THEN [m EXCEPT ![s] = Append(@, name)]
    ELSE (s :> <<name>>) @@ m

RECURSIVE MapAddTokens(_, _, _)
MapAddTokens(m, toks, name) ==
    IF toks = <<>> THEN m
    ELSE MapAddTokens(MapAppend(m, Head(toks), name), Tail(toks), name)

\* lines 42-46 over the rows r, r+1, ...
RECURSIVE MapFrom(_, _, _)
MapFrom(m, frame, r) ==
    IF r > Len(frame) THEN m
    ELSE MapFrom(MapAddTokens(m, IndexTokens(Str(frame[r].symptoms)), frame[r].name),
                 frame, r + 1)

EmptyMap == [s \in {} |-> <<>>]

BuildIndex ==
    /\ pc = "index"
    /\ symptom_map' = MapFrom(EmptyMap, df, 1)
    /\ all_symptoms' = Sorted(DOMAIN symptom_map')
    /\ pc' = "search"
    /\ UNCHANGED <<halt, table, px, df, query, matches, found, row,
                   symptom_input, i, disease_scores, risk_levels, sorted_diseases, report>>

----------------------------------------------------------------------------
(* The name search. *)

\* re.compile(query): the parentheses of the pattern must balance
RECURSIVE ReBalanced(_, _)
ReBalanced(p, depth) ==
    IF p = <<>> THEN depth = 0
    ELSE IF Head(p) = "(" THEN ReBalanced(Tail(p), depth + 1)
    ELSE IF Head(p) = ")" THEN depth > 0 /\ ReBalanced(Tail(p), depth - 1)
    ELSE ReBalanced(Tail(p), depth)

ReValid(p) == ReBalanced(p, 0)

\* what the pattern has to consume: a group's parentheses consume nothing
ReAtoms(p) == SelectSeq(p, LAMBDA c : c \notin {"(", ")"})

\* the pattern matches s from position k on; "." matches any character, and
\* case=False compares the others without case
ReMatchAt(atoms, s, k) ==
    /\ k + Len(atoms) - 1 <= Len(s)
    /\ \A j \in DOMAIN atoms :
          atoms[j] = "." \/ Lower(atoms[j]) = Lower(s[k + j - 1])

\* re.search(p, s) finds a match
ReSearch(p, s) == \E k \in 1..(Len(s) + 1) : ReMatchAt(ReAtoms(p), s, k)

RowNumbers(frame) == [r \in DOMAIN frame |-> r]

\* line 72: df[df['name'].str.contains(query, case=False, na=False)]
Contains(frame, q) ==
    SelectSeq(RowNumbers(frame), LAMBDA r : ReSearch(q, frame[r].name))

NameSearch(Q) ==
    /\ pc = "search"
    /\ \E typed \in Q :
         LET q == LowerStr(Strip(typed)) IN
           /\ query' = q
           /\ IF q = <<>>
              THEN \* line 71: the search is skipped
                   /\ found' = "skipped"
                   /\ pc' = "select"
                   /\ UNCHANGED <<matches, row, halt>>
              ELSE IF ~ReValid(q)
              THEN \* re.error from str.contains ends the run
                   /\ found' = "error"
                   /\ pc' = "halted"
                   /\ halt' = "re.error"
                   /\ UNCHANGED <<matches, row>>
              ELSE /\ matches' = Contains(df, q)
                   /\ found' = IF matches' # <<>> THEN "displayed" ELSE "notfound"
                   /\ row' = IF matches' # <<>> THEN Head(matches') ELSE 0
                   /\ pc' = "select"
                   /\ halt' = halt
    /\ UNCHANGED <<table, px, df, symptom_map, all_symptoms,
                   symptom_input, i, disease_scores, risk_levels, sorted_diseases, report>>

----------------------------------------------------------------------------
(* The symptom checker. *)

\* lines 122-129: the multiselect offers all_symptoms
SelectSymptoms ==
    /\ pc = "select"
    /\ \E chosen \in SUBSET Range(all_symptoms) :
         /\ symptom_input' = chosen
         /\ IF chosen = {}
            THEN pc' = "done" /\ report' = "none"
            ELSE pc' = (IF Len(df) = 0 THEN "report" ELSE "scoring") /\ report' = report
    /\ i' = 1
    /\ disease_scores' = <<>>
    /\ risk_levels' = EmptyMap
    /\ UNCHANGED <<halt, table, px, df, symptom_map, all_symptoms, query, matches,
                   found, row, sorted_diseases>>

\* lines 133-136: s.lower().split(","), each piece stripped, the empty ones dropped
ScoreTokens(raw) ==
    LET kept == NonEmptyPieces(Split(LowerStr(raw)))
    IN  [k \in DOMAIN kept |-> Strip(kept[k])]

Keys(d) == {d[k].name : k \in DOMAIN d}

\* d[name] = score on a dict: an existing key keeps its place
DictSet(d, name, score) ==
    IF name \in Keys(d)
    THEN [k \in DOMAIN d |-> IF d[k].name = name THEN [name |-> name, score |-> score]
                                                  ELSE d[k]]
    ELSE Append(d, [name |-> name, score |-> score])

DictGet(d, name) == (CHOOSE k \in DOMAIN d : d[k].name = name)

Max(a, b) == IF a >= b THEN a ELSE b

\* a union where line 138 intersects
MatchedUnion(chosen, disease_symptoms) == chosen \cup Range(disease_symptoms)

\* line 138
Matched(chosen, disease_symptoms) == chosen \cap Range(disease_symptoms)

\* the tiers with the ratio tested before the red flags
RiskRatioFirst(chosen, score, disease_symptoms, red_flags) ==
    IF 2 * score > Max(Len(disease_symptoms), 1) THEN "Medium"
    ELSE IF Cardinality(chosen \cap Range(red_flags)) > 0 THEN "High"
    ELSE "Low"

\* lines 144-150; score / max(n, 1) > 0.5 is 2 * score > max(n, 1)
Risk(chosen, score, disease_symptoms, red_flags) ==
    IF Cardinality(chosen \cap Range(red_flags)) > 0 THEN "High"
    ELSE IF 2 * score > Max(Len(disease_symptoms), 1) THEN "Medium"
    ELSE "Low"

\* lines 132-150 for one row
ScoreRow ==
    /\ pc = "scoring"
    /\ i <= Len(df)
    /\ LET disease_symptoms == ScoreTokens(Str(df[i].symptoms))
           red_flags == ScoreTokens(Str(df[i].red_flags))
           score == Cardinality(Matched(symptom_input, disease_symptoms))
       IN  IF score > 0
           THEN /\ disease_scores' = DictSet(disease_scores, df[i].name, score)
                /\ risk_levels' =
                      (df[i].name :> Risk(symptom_input, score, disease_symptoms, red_flags))
                      @@ risk_levels
           ELSE UNCHANGED <<disease_scores, risk_levels>>
    /\ i' = i + 1
    /\ pc' = IF i = Len(df) THEN "report" ELSE "scoring"
    /\ UNCHANGED <<halt, table, px, df, symptom_map, all_symptoms, query, matches,
                   found, row, symptom_input, sorted_diseases, report>>

\* an unstable placement: e goes in front of its equals
RECURSIVE InsertDescBefore(_, _)
InsertDescBefore(s, e) ==
    IF s = <<>> THEN <<e>>
    ELSE IF Head(s).score <= e.score THEN <<e>> \o s
    ELSE <<Head(s)>> \o InsertDescBefore(Tail(s), e)

\* where e goes in a list already in descending order: behind its equals
RECURSIVE InsertDesc(_, _)
InsertDesc(s, e) ==
    IF s = <<>> THEN <<e>>
    ELSE IF Head(s).score < e.score THEN <<e>> \o s
    ELSE <<Head(s)>> \o InsertDesc(Tail(s), e)

\* line 154: sorted(items, key=score, reverse=True), a stable sort
RECURSIVE SortedDesc(_, _)
SortedDesc(done, rest) ==
    IF rest = <<>> THEN done
    ELSE SortedDesc(InsertDesc(done, Head(rest)), Tail(rest))

\* the condition of line 152
Ranks(scores, plotly) == scores # <<>> /\ plotly

\* lines 152-169
Report ==
    /\ pc = "report"
    /\ IF Ranks(disease_scores, px)
       THEN /\ sorted_diseases' = SortedDesc(<<>>, disease_scores)
            /\ report' = "ranked"
       ELSE /\ sorted_diseases' = sorted_diseases
            /\ report' = "noresult"
    /\ pc' = "done"
    /\ UNCHANGED <<halt, table, px, df, symptom_map, all_symptoms, query, matches,
                   found, row, symptom_input, i, disease_scores, risk_levels>>

----------------------------------------------------------------------------
(* The tables, the typed queries and the runs. *)

\* the pool a column's cells are drawn from, by the header's normalised name
PoolOf(col, pools) ==
    IF col = NAME THEN pools.name
    ELSE IF col = SYMPTOMS THEN pools.symptoms
    ELSE IF col = RED_FLAGS THEN pools.red_flags
    ELSE pools.other

AllCells(pools) == pools.name \cup pools.symptoms \cup pools.red_flags \cup pools.other

RowsOf(headers, pools) ==
    LET cols == Columns(headers)
    IN  {cells \in [DOMAIN headers -> AllCells(pools)] :
            \A j \in DOMAIN headers : cells[j] \in PoolOf(cols[j], pools)}

\* the tables with one of the header rows and 1..MaxRows rows of cells
TablesOf(HeaderRows, pools) ==
    UNION {{[headers |-> h, rows |-> rs] :
                rs \in UNION {[1..n -> RowsOf(h, pools)] : n \in 1..MaxRows}} :
           h \in HeaderRows}

InitOf(Tables) ==
    /\ pc = "load"
    /\ halt = ""
    /\ table \in Tables
    /\ px \in BOOLEAN
    /\ df = <<>>
    /\ symptom_map = EmptyMap
    /\ all_symptoms = <<>>
    /\ query = <<>>
    /\ matches = <<>>
    /\ found = "pending"
    /\ row = 0
    /\ symptom_input = {}
    /\ i = 1
    /\ disease_scores = <<>>
    /\ risk_levels = EmptyMap
    /\ sorted_diseases = <<>>
    /\ report = "pending"

H_Name == <<" ", "N", "a", "m", "e">>

H_name == <<"n", "a", "m", "e", " ">>

H_Symptoms == <<"S", "y", "m", "p", "t", "o", "m", "s", " ">>

H_RedFlags == <<"R", "E", "D", "_", "F", "L", "A", "G", "S">>

H_id == <<"i", "d">>

\* Scoring runs: two names, symptom cells "F, c", "f,f" and blank, red-flag
\* cells "C" and blank.
ScorePools ==
    [name      |-> {Text(<<"A">>), Text(<<"b">>)},
     symptoms  |-> {Text(<<"F", ",", " ", "c">>), Text(<<"f", ",", "f">>)},
     red_flags |-> {Text(<<"C">>), NaN},
     other     |-> {}]

ScoreHeaders == {<<H_Name, H_Symptoms, H_RedFlags>>}

ScoreQueries == {<<"B", " ">>}

Init == InitOf(TablesOf(ScoreHeaders, ScorePools))

Next ==
    \/ Load
    \/ BuildIndex
    \/ NameSearch(ScoreQueries)
    \/ SelectSymptoms
    \/ ScoreRow
    \/ Report

Spec == Init /\ [][Next]_vars

\* Search runs: names "Flu", "fl" and "lu", one symptom cell, and every text of
\* at most MaxQueryLen characters typed into the search box.
SearchPools ==
    [name      |-> {Text(<<"F", "l", "u">>), Text(<<"f", "l">>), Text(<<"l", "u">>)},
     symptoms  |-> {Text(<<"f">>)},
     red_flags |-> {},
     other     |-> {}]

SearchHeaders == {<<H_name, H_Symptoms>>}

QueryChars == {"f", "L", "u", ".", "(", ")", " "}

SearchQueries == UNION {[1..n -> QueryChars] : n \in 0..MaxQueryLen}

InitSearch == InitOf(TablesOf(SearchHeaders, SearchPools))

NextSearch ==
    \/ Load
    \/ BuildIndex
    \/ NameSearch(SearchQueries)
    \/ SelectSymptoms
    \/ ScoreRow
    \/ Report

SpecSearch == InitSearch /\ [][NextSearch]_vars

\* Load runs: every header row of at most MaxCols different headers.
MaxCols == 3

LoadPools ==
    [name      |-> {Text(<<"A">>)},
     symptoms  |-> {Text(<<"f">>), Text(<<" ", ",">>), NaN},
     red_flags |-> {Text(<<"f">>), NaN},
     other     |-> {Text(<<"b">>)}]

HeaderPool == {H_Name, H_name, H_Symptoms, H_RedFlags, H_id}

HeaderRows ==
    {h \in UNION {[1..n -> HeaderPool] : n \in 1..MaxCols} :
        \A j, k \in DOMAIN h : j # k => h[j] # h[k]}

InitLoad == InitOf(TablesOf(HeaderRows, LoadPools))

SpecLoad == InitLoad /\ [][Next]_vars

----------------------------------------------------------------------------
(* What the claims speak of. *)

\* the symptom map and the symptom list exist
IndexBuilt ==
    \/ pc \in {"search", "select", "scoring", "report", "done"}
    \/ pc = "halted" /\ halt = "re.error"

\* the run ended in load_disease_data
LoadAborted == pc = "halted" /\ halt \in {"st.stop", "AttributeError"}

\* the scoring loop is running or has run; the rows below i are scored
Scoring == pc \in {"scoring", "report", "done"} /\ symptom_input # {}

Scored == pc \in {"report", "done"} /\ symptom_input # {}

\* the tokens of row r's symptom cell and red-flag cell
SymptomsOf(r) == IndexTokens(Str(df[r].symptoms))

FlagsOf(r) == IndexTokens(Str(df[r].red_flags))

Count(t, toks) == Cardinality({k \in DOMAIN toks : toks[k] = t})

\* the number of selected symptoms listed by row r
MatchCount(r) == Cardinality({t \in symptom_input : Count(t, SymptomsOf(r)) > 0})

FlagOverlap(r) == \E t \in symptom_input : Count(t, FlagsOf(r)) > 0

\* row r is scored, matched a symptom, and no later scored row of its name did:
\* the entry of its name in the result is the one row r wrote
Supplies(r) ==
    /\ r < i
    /\ MatchCount(r) >= 1
    /\ \A r2 \in DOMAIN df : (r < r2 /\ r2 < i /\ df[r2].name = df[r].name)
                                 => MatchCount(r2) = 0

\* the first scored row of name n that matched a symptom
FirstRow(n) ==
    CHOOSE r \in DOMAIN df :
        /\ df[r].name = n /\ MatchCount(r) >= 1
        /\ \A r2 \in DOMAIN df : (df[r2].name = n /\ MatchCount(r2) >= 1) => r <= r2

ScoreOfName(n) == disease_scores[DictGet(disease_scores, n)].score

RECURSIVE Repeat(_, _)
Repeat(x, k) == IF k = 0 THEN <<>> ELSE <<x>> \o Repeat(x, k - 1)

\* the names of rows r.. in row order, each once per occurrence of t in its tokens
RECURSIVE Listing(_, _)
Listing(t, r) ==
    IF r > Len(df) THEN <<>>
    ELSE Repeat(df[r].name, Count(t, SymptomsOf(r))) \o Listing(t, r + 1)

\* C1: a scored row that matched a symptom and whose entry is in the result has
\* the tier High whenever a selected symptom is one of its red flags, whatever
\* its score and its ratio.
C1_RedFlagIsHigh ==
    Scoring =>
        \A r \in DOMAIN df :
            (Supplies(r) /\ FlagOverlap(r)) => risk_levels[df[r].name] = "High"

\* C1 witness: the row scored last has a red flag selected while its ratio is at
\* most one half, and its tier is High.
C1_Witness ==
    /\ Scoring /\ i > 1
    /\ Supplies(i - 1) /\ FlagOverlap(i - 1)
    /\ 2 * MatchCount(i - 1) <= Max(Len(SymptomsOf(i - 1)), 1)
    /\ risk_levels[df[i - 1].name] = "High"

\* C2 (as claimed): without a red flag selected, the tier of a row in the result is
\* Medium exactly when score / max(number of DISTINCT symptom tokens, 1) > 0.5,
\* and Low otherwise.
C2_RatioOverDistinctTokens ==
    Scoring =>
        \A r \in DOMAIN df :
            (Supplies(r) /\ ~FlagOverlap(r)) =>
                risk_levels[df[r].name] =
                    (IF 2 * MatchCount(r) > Max(Cardinality(Range(SymptomsOf(r))), 1)
                     THEN "Medium" ELSE "Low")

\* C3: once the rows are scored, a name has an entry exactly when a row of that
\* name lists a selected symptom, the entry's score is the number of selected
\* symptoms such a row lists, and a row that lists none adds no entry even when
\* a selected symptom is one of its red flags.
C3_EntriesAreMatches ==
    Scoring =>
        /\ \A k \in DOMAIN disease_scores :
              \E r \in DOMAIN df :
                  /\ r < i /\ df[r].name = disease_scores[k].name
                  /\ MatchCount(r) >= 1
                  /\ disease_scores[k].score = MatchCount(r)
        /\ \A r \in DOMAIN df :
              (r < i /\ MatchCount(r) >= 1) => df[r].name \in Keys(disease_scores)
        /\ \A j, k \in DOMAIN disease_scores :
              disease_scores[j].name = disease_scores[k].name => j = k

\* C3 witness: every row is scored, one has no selected symptom but a selected
\* red flag and no entry, and another row has an entry.
C3_Witness ==
    /\ Scored
    /\ disease_scores # <<>>
    /\ \E r \in DOMAIN df :
          /\ MatchCount(r) = 0 /\ FlagOverlap(r)
          /\ df[r].name \notin Keys(disease_scores)

\* the rows an entry can come from: those of its name that matched as many
\* selected symptoms as the entry's score says
RowsOfEntry(e) == {r \in DOMAIN df : df[r].name = e.name /\ MatchCount(r) = e.score}

\* C4 (as claimed): the ranked entries are in non-increasing score order and two
\* entries of equal score stand in the order in which their rows occur in the
\* table, also when several rows share a name.
C4_TiesInRecordOrder ==
    report = "ranked" =>
        \A p, q \in DOMAIN sorted_diseases :
            p < q =>
                /\ sorted_diseases[p].score >= sorted_diseases[q].score
                /\ sorted_diseases[p].score = sorted_diseases[q].score
                     => \E rp \in RowsOfEntry(sorted_diseases[p]) :
                          \E rq \in RowsOfEntry(sorted_diseases[q]) : rp < rq

\* C4 (amended): the ranked entries are the entries of the result, in
\* non-increasing score order, and two entries of equal score stand in the order
\* of the first rows of their names that matched a symptom.
C4_TiesInFirstRowOrder ==
    report = "ranked" =>
        /\ Len(sorted_diseases) = Len(disease_scores)
        /\ Range(sorted_diseases) = Range(disease_scores)
        /\ \A p, q \in DOMAIN sorted_diseases :
              p < q =>
                /\ sorted_diseases[p].score >= sorted_diseases[q].score
                /\ sorted_diseases[p].score = sorted_diseases[q].score
                     => FirstRow(sorted_diseases[p].name)
                          < FirstRow(sorted_diseases[q].name)

\* C4 witness: two ranked entries of equal score, the first of which has its
\* score only from rows below those of the second, and its place from a row above.
C4_Witness ==
    /\ report = "ranked"
    /\ \E p, q \in DOMAIN sorted_diseases :
          /\ p < q
          /\ sorted_diseases[p].score = sorted_diseases[q].score
          /\ \A rp \in RowsOfEntry(sorted_diseases[p]) :
                \A rq \in RowsOfEntry(sorted_diseases[q]) : rp > rq
          /\ FirstRow(sorted_diseases[p].name) < FirstRow(sorted_diseases[q].name)

\* q occurs in s as a literal substring, compared without case
LiteralIn(q, s) ==
    \E k \in 1..(Len(s) - Len(q) + 1) :
        \A j \in DOMAIN q : Lower(q[j]) = Lower(s[k + j - 1])

\* C5 (as claimed): a search that ran selected exactly the rows whose name holds
\* the query as a literal substring.
C5_LiteralSubstring ==
    found \in {"displayed", "notfound"} =>
        Range(matches) = {r \in DOMAIN df : LiteralIn(query, df[r].name)}

\* C6 (as claimed): a non-empty query ends in the first selected row displayed or
\* in "not found", never in an error; an empty query runs no search.
C6_FoundOrNotFound ==
    found # "pending" =>
        IF query = <<>> THEN found = "skipped"
        ELSE \/ /\ found = "displayed"
                /\ matches # <<>>
                /\ \A r \in Range(matches) : row <= r
             \/ found = "notfound" /\ matches = <<>>

\* C7 (as claimed): load_disease_data ends the run exactly when no header is
\* "name" once stripped and lower-cased; otherwise it returns the rows.
C7_AbortsIffNoNameHeader ==
    pc # "load" =>
        /\ LoadAborted <=> Places(Columns(table.headers), NAME) = {}
        /\ ~LoadAborted => Len(df) = Len(table.rows)

\* a cell that is blank, or holds no token
Unfilled(cell) == cell.blank \/ NonEmptyPieces(Split(cell.text)) = <<>>

Filled(frame) == SelectSeq(frame, LAMBDA rec : ~Unfilled(rec.symptoms))

\* C8 (as claimed): the rows whose symptom cell is blank, absent or without a
\* token add nothing to the map and the symptom list, get no entry of their own,
\* and a blank, absent or token-less red-flag cell never makes a row High.
C8_EmptyCellsGiveNoToken ==
    /\ IndexBuilt =>
          /\ symptom_map = MapFrom(EmptyMap, Filled(df), 1)
          /\ Range(all_symptoms) = DOMAIN MapFrom(EmptyMap, Filled(df), 1)
    /\ Scoring =>
          \A r \in DOMAIN df :
              /\ (r < i /\ Unfilled(df[r].symptoms)
                     /\ \A r2 \in DOMAIN df : df[r2].name = df[r].name => r2 = r)
                    => df[r].name \notin Keys(disease_scores)
              /\ (Supplies(r) /\ Unfilled(df[r].red_flags))
                    => risk_levels[df[r].name] # "High"

\* C9: the entry of a token lists the names in row order, a name once per
\* occurrence of the token in its row; the keys are the tokens, none empty, all
\* lower-case; the symptom list holds the keys once each in ascending order.
C9_IndexListsOccurrences ==
    IndexBuilt =>
        /\ DOMAIN symptom_map = UNION {Range(SymptomsOf(r)) : r \in DOMAIN df}
        /\ \A t \in DOMAIN symptom_map :
              /\ symptom_map[t] = Listing(t, 1)
              /\ t # <<>>
              /\ \A k \in DOMAIN t : Lower(t[k]) = t[k]
        /\ Range(all_symptoms) = DOMAIN symptom_map
        /\ Len(all_symptoms) = Cardinality(DOMAIN symptom_map)
        /\ \A k \in DOMAIN all_symptoms :
              k < Len(all_symptoms) => StrLess(all_symptoms[k], all_symptoms[k + 1])

\* C9 witness: a row that repeats a token is listed twice under it, and the
\* symptom list holds more than one token.
C9_Witness ==
    /\ IndexBuilt
    /\ Len(all_symptoms) >= 2
    /\ \E r \in DOMAIN df : \E t \in DOMAIN symptom_map :
          /\ Count(t, SymptomsOf(r)) = 2
          /\ Count(df[r].name, symptom_map[t]) >= 2

\* C10 (as claimed): with symptoms selected, "no conditions match" is reported
\* exactly when no row scored, and the ranked list otherwise, whether or not
\* plotly is there.
C10_NoResultIffNoScore ==
    (pc = "done" /\ symptom_input # {}) =>
        /\ report = "noresult" <=> disease_scores = <<>>
        /\ disease_scores # <<>> => report = "ranked"

====
